---------------------------- MODULE Spec2Model ----------------------------
(***************************************************************************)
(* Aurora Aqua - the User Intent tracker (src/src/js/utils/UserIntent.js). *)
(*                                                                         *)
(* The tracker is one mutable singleton.  Its fields are the fields of the *)
(* record `ui`; every method of the class is an operator from a tracker    *)
(* record (and the method's inputs) to the tracker record it leaves, and   *)
(* every action of the state machine is one call of one method.            *)
(* The record `scene` holds the fields of HomeScene.js that the tracker    *)
(* drives (updateFuzzyZones, updateCreatures).                             *)
(*                                                                         *)
(* Numbers.  JavaScript doubles are modelled in fixed point:               *)
(*   - times (performance.now()/1000, delta, the timers) in centiseconds;  *)
(*   - the 0..1 factors, timeScale, beamResonance, normalised pointer      *)
(*     coordinates and the decaying direction-change count in thousandths; *)
(*   - scroll positions in px, scroll velocity in px/s;                    *)
(*   - _phaseAccumulator / phaseProgress in units of 1e-7 (factor in       *)
(*     thousandths * weight in hundredths * delta in centiseconds), so the *)
(*     accumulation is exact;                                              *)
(*   - perceptionShiftProgress in units of 1e-4 (delta * 0.25 is exact).   *)
(* The only inexact steps are the exponential smoothings (x += (t-x)*k),   *)
(* the decays (x *= k), the scroll quotients and the square root, which    *)
(* round toward zero.                                                      *)
(***************************************************************************)
EXTENDS Integers, Sequences, FiniteSets, TLC

VARIABLES
  ui,        \* the userIntent singleton (UserIntent.js:363) and its event log
  now,       \* performance.now() / 1000 as the handlers read it
  last,      \* the most recent call: [op, arg, ret]
  triggers,  \* number of triggerPerceptionShift() calls so far
  frames,    \* number of update() calls so far
  goodRun,   \* deltas of the current unbroken run of update() ticks that
             \* ended with rushFactor < 0.15 and lingerFactor > 0.3
  goodTotal, \* deltas of all such ticks since the gate was last locked
  fastOnly,  \* every update() so far ran with |_scrollVelocity| > 2000
  shiftDt,   \* deltas passed to updatePerceptionShift() since the trigger
  steps,     \* number of calls made so far
  idleDt,    \* deltas of the update() ticks since the last pointer-move event
  movedTo,   \* the normalized position given by the last pointer-move event
  longestIdle, \* the largest idleDt any update() tick has ended with
  dwellTotal,  \* time spent idle beyond 1.2 s, summed over all dwells
  guideDt,   \* deltas of the update() ticks that ran with lingerFactor > 0.8
             \* and more than 20 s after construction
  pure,      \* every update() so far ran with mouseIntensity = 1,
             \* rushFactor = 0 and hesitationFactor <= 0.2
  beamPeak,  \* the largest beamResonance any update() tick has ended with
  found,     \* the _phaseAccumulator the last update() call started from
  lastDir,   \* sign of the last non-zero scroll delta (0: none so far)
  scrollAt,  \* the clock at the last scroll event (0: none so far)
  quiet,     \* no scroll event since the last update() call
  scene      \* the HomeScene fields driven by the tracker: currentZone,
             \* pendingZone, zoneBlend and creatureMood

vars == <<ui, now, last, triggers, frames, goodRun, goodTotal, fastOnly, shiftDt,
          steps, idleDt, movedTo, longestIdle, dwellTotal, guideDt, pure,
          beamPeak, found, lastDir, scrollAt, quiet, scene>>

-----------------------------------------------------------------------------
(* Units and the program's numeric constants *)

Sec == 100             \* one second, in centiseconds
One == 1000            \* 1.0 for the thousandths-scaled fields
AccOne == 10000000     \* 1.0 for _phaseAccumulator and phaseProgress
ShiftOne == 10000      \* 1.0 for perceptionShiftProgress

ClickNudge == 200000   \* 0.02 of AccOne
RushLock == 400        \* rushFactor > 0.4 locks the gate
RushCalm == 150        \* rushFactor < 0.15
LingerCalm == 300      \* lingerFactor > 0.3
GateDwell == 40        \* zoneGateTimer > 0.4 s
DwellThreshold == 120  \* _mouseIdleTime > 1.2 s
PanelDwell == 200      \* cursorDwellDuration > 2.0 s
GuideUptime == 2000    \* elapsed > 20 s
GuideLinger == 800     \* lingerFactor > 0.8
GuideAccum == 400      \* _guideFishLingerAccum > 4.0 s
HistoryMaxAge == 300   \* _scrollHistoryMaxAge = 3 s
LastPhase == 4         \* emotionalPhaseIndex of 'transformation'

Min(a, b) == IF a < b THEN a ELSE b
Max(a, b) == IF a > b THEN a ELSE b
Abs(a) == IF a < 0 THEN -a ELSE a
Sign(a) == IF a > 0 THEN 1 ELSE IF a < 0 THEN -1 ELSE 0

\* a * num / den, rounded toward zero
Scale(a, num, den) == Sign(a) * ((Abs(a) * num) \div den)

\* Math.sqrt on a non-negative integer, rounded down
Sqrt(n) == CHOOSE r \in 0..1500 : r * r <= n /\ (r + 1) * (r + 1) > n

\* x / dt for a time difference `raw` in centiseconds floored at 0.001 s
\* (Math.max(now - last, 0.001)): the result is per second.
PerSecond(x, raw) == IF raw < 1 THEN x * 1000 ELSE Scale(x, Sec, raw)

phases == <<"curiosity", "uncertainty", "confrontation", "revelation",
            "transformation">>

-----------------------------------------------------------------------------
(* The constructor: the tracker as built at time t *)

constructor(t) ==
  [ _scrollY |-> 0, _prevScrollY |-> 0, _scrollDelta |-> 0,
    _scrollVelocity |-> 0, _scrollAccel |-> 0, _prevScrollVelocity |-> 0,
    _lastScrollTime |-> 0, _scrollDirectionChanges |-> 0,
    _lastScrollDirection |-> 0, _directionChangeDecay |-> 0,
    _mouseX |-> 500, _mouseY |-> 500, _mouseVelocity |-> 0,
    _prevMouseX |-> 500, _prevMouseY |-> 500, _mouseIdleTime |-> 0,
    _lastMouseMoveTime |-> 0,
    rushFactor |-> 0, lingerFactor |-> 0, hesitationFactor |-> 0,
    mouseIntensity |-> 0,
    cursorDwelling |-> FALSE, cursorDwellPosition |-> [x |-> 500, y |-> 500],
    cursorDwellDuration |-> 0,
    explorationRhythm |-> 0,
    zoneGateLocked |-> FALSE, zoneGateTimer |-> 0,
    emotionalPhase |-> "curiosity", emotionalPhaseIndex |-> 0,
    phaseProgress |-> 0, _phaseAccumulator |-> 0,
    _confrontationTriggered |-> FALSE, _revelationTriggered |-> FALSE,
    perceptionShiftActive |-> FALSE, perceptionShiftTriggered |-> FALSE,
    perceptionShiftProgress |-> 0, gravityInverted |-> FALSE,
    timeScale |-> One,
    guideFishUnlocked |-> FALSE, dataPanelsExpanded |-> FALSE,
    beamResonance |-> 0,
    _guideFishLingerAccum |-> 0,
    _scrollHistory |-> <<>>,
    _startTime |-> t,
    dispatched |-> <<>> ]   \* the 'emotionalPhaseChange' events, in order

-----------------------------------------------------------------------------
(* Raw input handlers *)

\* _handleScroll at time t with window.scrollY = y
_handleScroll(s, t, y) ==
  LET raw == t - s._lastScrollTime
      d == y - s._scrollY
      newVelocity == PerSecond(d, raw)
      dir == Sign(d)
      flip == dir # 0 /\ dir # s._lastScrollDirection
      pushed == Append(s._scrollHistory,
                       [y |-> y, time |-> t, velocity |-> newVelocity])
      fresh(e) == t - e.time < HistoryMaxAge
  IN [s EXCEPT
        !._prevScrollY = s._scrollY,
        !._scrollY = y,
        !._scrollDelta = d,
        !._scrollAccel = PerSecond(newVelocity - s._scrollVelocity, raw),
        !._prevScrollVelocity = s._scrollVelocity,
        !._scrollVelocity = newVelocity,
        !._lastScrollTime = t,
        !._scrollDirectionChanges = IF flip THEN @ + One ELSE @,
        !._lastScrollDirection = IF flip THEN dir ELSE @,
        !._scrollHistory = SelectSeq(pushed, fresh)]

\* mutant: a pointer move leaves the idle time running
MouseMoveKeepsIdle(s, t, x, y) ==
  LET dx == x - s._mouseX
      dy == y - s._mouseY
  IN [s EXCEPT
        !._prevMouseX = s._mouseX,
        !._prevMouseY = s._mouseY,
        !._mouseX = x,
        !._mouseY = y,
        !._mouseVelocity = Sqrt(dx * dx + dy * dy) * 60,
        !._lastMouseMoveTime = t]

\* _handleMouseMove at time t; x, y are clientX/innerWidth, clientY/innerHeight
_handleMouseMove(s, t, x, y) ==
  LET dx == x - s._mouseX
      dy == y - s._mouseY
  IN [s EXCEPT
        !._prevMouseX = s._mouseX,
        !._prevMouseY = s._mouseY,
        !._mouseX = x,
        !._mouseY = y,
        !._mouseVelocity = Sqrt(dx * dx + dy * dy) * 60,
        !._lastMouseMoveTime = t,
        !._mouseIdleTime = 0]

\* n pointer-down events in a row: each adds 0.02 to the accumulator
PointerDowns(s, n) ==
  [s EXCEPT !._phaseAccumulator = @ + n * ClickNudge]

\* mutant: a click counts only while a phase is still accumulating
MouseDownUntilLast(s) ==
  IF s.emotionalPhaseIndex < LastPhase THEN PointerDowns(s, 1) ELSE s

\* mutant: the click that fills the accumulator advances the phase itself
MouseDownAdvances(s) ==
  LET n == PointerDowns(s, 1)
      index == n.emotionalPhaseIndex + 1
  IN IF n._phaseAccumulator >= AccOne /\ n.emotionalPhaseIndex < LastPhase
     THEN [n EXCEPT
             !.emotionalPhaseIndex = index,
             !.emotionalPhase = phases[index + 1],
             !._phaseAccumulator = 0,
             !.phaseProgress = 0,
             !.dispatched =
                Append(@, [phase |-> phases[index + 1], index |-> index])]
     ELSE n

_handleMouseDown(s) == PointerDowns(s, 1)

-----------------------------------------------------------------------------
(* update(delta), section by section (UserIntent.js:162-252) *)

\* x += (target - x) * k/100
Smooth(x, target, k) == x + Scale(target - x, k, 100)

\* mutant: the target is taken over unsmoothed
RushStepUnsmoothed(s) ==
  [s EXCEPT !.rushFactor = Min(Abs(s._scrollVelocity) \div 2, One)]

RushStep(s) ==
  LET absVel == Abs(s._scrollVelocity)
      targetRush == Min(absVel \div 2, One)   \* absVel / 2000, in thousandths
  IN [s EXCEPT !.rushFactor = Smooth(@, targetRush, 8)]

\* mutant: the idle time is not saturated at 3 s
LingerStepUnclamped(s, t) ==
  [s EXCEPT !.lingerFactor = Scale(t - s._lastScrollTime, One, 3 * Sec)]

\* mutant: linger is smoothed like the rush factor
LingerStepSmoothed(s, t) ==
  LET scrollIdle == t - s._lastScrollTime
  IN [s EXCEPT !.lingerFactor =
        Smooth(@, Min(Scale(scrollIdle, One, 3 * Sec), One), 8)]

LingerStep(s, t) ==
  LET scrollIdle == t - s._lastScrollTime
  IN [s EXCEPT !.lingerFactor = Min(Scale(scrollIdle, One, 3 * Sec), One)]

HesitationStep(s) ==
  LET decay == Smooth(s._directionChangeDecay,
                      Scale(s._scrollDirectionChanges, 3, 10), 5)
  IN [s EXCEPT
        !._directionChangeDecay = decay,
        !.hesitationFactor = Min(decay, One),
        !._scrollDirectionChanges = Scale(@, 95, 100)]

MouseStep(s, delta) ==
  LET targetMouseIntensity == Min(s._mouseVelocity * 2, One)
  IN [s EXCEPT
        !._mouseIdleTime = @ + delta,
        !.mouseIntensity = Smooth(@, targetMouseIntensity, 10),
        !._mouseVelocity = Scale(@, 9, 10)]

\* mutant: dwelling starts at the threshold instead of beyond it
DwellStepAtThreshold(s) ==
  IF s._mouseIdleTime >= DwellThreshold
  THEN [s EXCEPT
          !.cursorDwelling = TRUE,
          !.cursorDwellPosition = [x |-> s._mouseX, y |-> s._mouseY],
          !.cursorDwellDuration = s._mouseIdleTime - DwellThreshold]
  ELSE [s EXCEPT
          !.cursorDwelling = FALSE,
          !.cursorDwellDuration = 0]

DwellStep(s) ==
  IF s._mouseIdleTime > DwellThreshold
  THEN [s EXCEPT
          !.cursorDwelling = TRUE,
          !.cursorDwellPosition = [x |-> s._mouseX, y |-> s._mouseY],
          !.cursorDwellDuration = s._mouseIdleTime - DwellThreshold]
  ELSE [s EXCEPT
          !.cursorDwelling = FALSE,
          !.cursorDwellDuration = 0]

RhythmStep(s) ==
  LET rushContrib == -s.rushFactor
      lingerContrib == s.lingerFactor
      hesitContrib == Scale(s.hesitationFactor, 3, 10)
      targetRhythm ==
        Max(-One, Min(One, rushContrib + lingerContrib + hesitContrib))
  IN [s EXCEPT !.explorationRhythm = Smooth(@, targetRhythm, 3)]

\* the unlock condition of the zone gate (UserIntent.js:210)
GateCalm(s) == s.rushFactor < RushCalm /\ s.lingerFactor > LingerCalm

\* mutant: a tick without the unlock condition keeps the timer
ZoneGateStepKeepsTimer(s, delta) ==
  IF s.zoneGateLocked /\ GateCalm(s)
  THEN IF s.zoneGateTimer + delta > GateDwell
       THEN [s EXCEPT !.zoneGateLocked = FALSE, !.zoneGateTimer = 0]
       ELSE [s EXCEPT !.zoneGateTimer = @ + delta]
  ELSE s

\* mutant: the unlock leaves the timer running
ZoneGateStepLeavesTimer(s, delta) ==
  IF s.zoneGateLocked
  THEN IF GateCalm(s)
       THEN IF s.zoneGateTimer + delta > GateDwell
            THEN [s EXCEPT !.zoneGateLocked = FALSE,
                           !.zoneGateTimer = @ + delta]
            ELSE [s EXCEPT !.zoneGateTimer = @ + delta]
       ELSE [s EXCEPT !.zoneGateTimer = 0]
  ELSE s

ZoneGateStep(s, delta) ==
  IF s.zoneGateLocked
  THEN IF GateCalm(s)
       THEN IF s.zoneGateTimer + delta > GateDwell
            THEN [s EXCEPT !.zoneGateLocked = FALSE, !.zoneGateTimer = 0]
            ELSE [s EXCEPT !.zoneGateTimer = @ + delta]
       ELSE [s EXCEPT !.zoneGateTimer = 0]
  ELSE s

TimeScaleStep(s) ==
  LET targetTimeScale ==
        One + Scale(s.rushFactor, 8, 10) - Scale(s.lingerFactor, 5, 10)
      smoothed == Smooth(s.timeScale, targetTimeScale, 2)
  IN [s EXCEPT !.timeScale = Max(300, Min(2000, smoothed))]

\* mutant: the curiosity phase ignores the pointer
AccumRateIgnoresMouse(s) ==
  CASE s.emotionalPhaseIndex = 0 ->
         s.rushFactor * 3 + (IF s.hesitationFactor > 200 THEN 1000 ELSE 0)
    [] s.emotionalPhaseIndex = 1 ->
         s.hesitationFactor * 4 + s.lingerFactor * 2 - s.rushFactor
    [] s.emotionalPhaseIndex = 2 ->
         s.mouseIntensity * 3 + s.rushFactor * 2
           + (IF s.cursorDwelling THEN 1500 ELSE 0)
    [] s.emotionalPhaseIndex = 3 ->
         s.lingerFactor * 5 + (One - s.rushFactor) * 2
    [] OTHER -> 0

\* accumRate of the switch (UserIntent.js:265-297), in 1e-5 per second
AccumRate(s) ==
  CASE s.emotionalPhaseIndex = 0 ->
         s.rushFactor * 3 + s.mouseIntensity * 2
           + (IF s.hesitationFactor > 200 THEN 1000 ELSE 0)
    [] s.emotionalPhaseIndex = 1 ->
         s.hesitationFactor * 4 + s.lingerFactor * 2 - s.rushFactor
    [] s.emotionalPhaseIndex = 2 ->
         s.mouseIntensity * 3 + s.rushFactor * 2
           + (IF s.cursorDwelling THEN 1500 ELSE 0)
    [] s.emotionalPhaseIndex = 3 ->
         s.lingerFactor * 5 + (One - s.rushFactor) * 2
    [] OTHER -> 0

\* the side effects of the switch's cases 2, 3 and 4
PhaseCase(s) ==
  CASE s.emotionalPhaseIndex = 2 -> [s EXCEPT !._confrontationTriggered = TRUE]
    [] s.emotionalPhaseIndex = 3 -> [s EXCEPT !._revelationTriggered = TRUE]
    [] s.emotionalPhaseIndex = 4 -> [s EXCEPT !.phaseProgress = AccOne]
    [] OTHER -> s

\* mutant: the rate is not floored at zero
PhaseAccumulateUnfloored(s, rate, delta) ==
  LET acc == s._phaseAccumulator + rate * delta
  IN [s EXCEPT !._phaseAccumulator = acc, !.phaseProgress = Min(acc, AccOne)]

\* lines 299-301: floor the rate, accumulate, publish the progress
PhaseAccumulate(s, rate, delta) ==
  LET acc == s._phaseAccumulator + Max(0, rate) * delta
  IN [s EXCEPT !._phaseAccumulator = acc, !.phaseProgress = Min(acc, AccOne)]

\* mutant: the transition repeats while a whole unit is left over
PhaseTransitionCarries(s) ==
  IF s._phaseAccumulator >= AccOne /\ s.emotionalPhaseIndex < LastPhase
  THEN LET index == Min(s.emotionalPhaseIndex + s._phaseAccumulator \div AccOne,
                        LastPhase)
       IN [s EXCEPT
             !.emotionalPhaseIndex = index,
             !.emotionalPhase = phases[index + 1],
             !._phaseAccumulator = 0,
             !.phaseProgress = 0,
             !.dispatched =
                Append(@, [phase |-> phases[index + 1], index |-> index])]
  ELSE s

\* mutant: the event is dispatched before the phase name is updated
PhaseTransitionStaleName(s) ==
  IF s._phaseAccumulator >= AccOne /\ s.emotionalPhaseIndex < LastPhase
  THEN LET index == s.emotionalPhaseIndex + 1
       IN [s EXCEPT
             !.emotionalPhaseIndex = index,
             !.emotionalPhase = phases[index + 1],
             !._phaseAccumulator = 0,
             !.phaseProgress = 0,
             !.dispatched =
                Append(@, [phase |-> s.emotionalPhase, index |-> index])]
  ELSE s

\* lines 303-314: the phase transition and its CustomEvent
PhaseTransition(s) ==
  IF s._phaseAccumulator >= AccOne /\ s.emotionalPhaseIndex < LastPhase
  THEN LET index == s.emotionalPhaseIndex + 1
       IN [s EXCEPT
             !.emotionalPhaseIndex = index,
             !.emotionalPhase = phases[index + 1],
             !._phaseAccumulator = 0,
             !.phaseProgress = 0,
             !.dispatched =
                Append(@, [phase |-> phases[index + 1], index |-> index])]
  ELSE s

_updateEmotionalPhase(s, delta, elapsed) ==
  PhaseTransition(PhaseAccumulate(PhaseCase(s), AccumRate(s), delta))

\* mutant: the 20 s of uptime are not required
GuideFishStepNoUptime(s, delta, elapsed) ==
  IF ~s.guideFishUnlocked /\ s.lingerFactor > GuideLinger
  THEN LET accum == s._guideFishLingerAccum + delta
       IN [s EXCEPT
             !._guideFishLingerAccum = accum,
             !.guideFishUnlocked = accum > GuideAccum]
  ELSE s

GuideFishStep(s, delta, elapsed) ==
  IF ~s.guideFishUnlocked /\ s.lingerFactor > GuideLinger
       /\ elapsed > GuideUptime
  THEN LET accum == s._guideFishLingerAccum + delta
       IN [s EXCEPT
             !._guideFishLingerAccum = accum,
             !.guideFishUnlocked = accum > GuideAccum]
  ELSE s

\* mutant: the panels follow the dwell instead of latching
DataPanelsFollowDwell(s) ==
  [s EXCEPT !.dataPanelsExpanded =
               s.cursorDwelling /\ s.cursorDwellDuration > PanelDwell]

\* mutant: the panels expand only while the zone gate is open
DataPanelsBehindGate(s) ==
  IF s.cursorDwelling /\ s.cursorDwellDuration > PanelDwell
       /\ ~s.zoneGateLocked
  THEN [s EXCEPT !.dataPanelsExpanded = TRUE]
  ELSE s

DataPanelsStep(s) ==
  IF s.cursorDwelling /\ s.cursorDwellDuration > PanelDwell
  THEN [s EXCEPT !.dataPanelsExpanded = TRUE]
  ELSE s

\* mutant: the rise is not clamped at 1
BeamStepUnclamped(s, delta) ==
  LET dx == s._mouseX - 500
      dy == s._mouseY - 500
      near == dx * dx + dy * dy < 300 * 300
  IN IF near /\ s.mouseIntensity > 200
     THEN [s EXCEPT !.beamResonance = @ + 3 * delta]
     ELSE [s EXCEPT !.beamResonance = Max(0, @ - delta)]

BeamStep(s, delta) ==
  LET dx == s._mouseX - 500
      dy == s._mouseY - 500
      near == dx * dx + dy * dy < 300 * 300
  IN IF near /\ s.mouseIntensity > 200
     THEN [s EXCEPT !.beamResonance = Min(One, @ + 3 * delta)]
     ELSE [s EXCEPT !.beamResonance = Max(0, @ - delta)]

\* update(delta) at time t
update(s, delta, t) ==
  LET elapsed == t - s._startTime
      s1 == RushStep(s)
      s2 == LingerStep(s1, t)
      s3 == HesitationStep(s2)
      s4 == MouseStep(s3, delta)
      s5 == DwellStep(s4)
      s6 == RhythmStep(s5)
      s7 == ZoneGateStep(s6, delta)
      s8 == TimeScaleStep(s7)
      s9 == _updateEmotionalPhase(s8, delta, elapsed)
      s10 == GuideFishStep(s9, delta, elapsed)
      s11 == DataPanelsStep(s10)
  IN BeamStep(s11, delta)

\* lines 166-205 and 221-226: the channels, refreshed from the raw signals
IntentStep(s, delta, t) ==
  TimeScaleStep(RhythmStep(DwellStep(MouseStep(
    HesitationStep(LingerStep(RushStep(s), t)), delta))))

\* lines 231-251: guide fish, data panels and beam resonance
UnlockStep(s, delta, elapsed) ==
  BeamStep(DataPanelsStep(GuideFishStep(s, delta, elapsed)), delta)

-----------------------------------------------------------------------------
(* Zone gate and perception shift (UserIntent.js:322-352) *)

\* mutant: a granted request opens the gate
requestOpensGate(s) ==
  IF s.rushFactor > RushLock
  THEN [ui |-> [s EXCEPT !.zoneGateLocked = TRUE, !.zoneGateTimer = 0],
        ret |-> FALSE]
  ELSE [ui |-> [s EXCEPT !.zoneGateLocked = FALSE, !.zoneGateTimer = 0],
        ret |-> TRUE]

\* the tracker after the call, and the value the call returns
requestZoneTransition(s) ==
  IF s.rushFactor > RushLock
  THEN [ui |-> [s EXCEPT !.zoneGateLocked = TRUE, !.zoneGateTimer = 0],
        ret |-> FALSE]
  ELSE [ui |-> s, ret |-> TRUE]

\* mutant: the guard reads the running flag instead of the one-shot latch
triggerWhileIdle(s) ==
  IF s.perceptionShiftActive
  THEN s
  ELSE [s EXCEPT
          !.perceptionShiftTriggered = TRUE,
          !.perceptionShiftActive = TRUE,
          !.perceptionShiftProgress = 0,
          !.gravityInverted = TRUE]

triggerPerceptionShift(s) ==
  IF s.perceptionShiftTriggered
  THEN s
  ELSE [s EXCEPT
          !.perceptionShiftTriggered = TRUE,
          !.perceptionShiftActive = TRUE,
          !.perceptionShiftProgress = 0,
          !.gravityInverted = TRUE]

\* mutant: the progress is not clamped when the shift completes
updateShiftUnclamped(s, delta) ==
  IF ~s.perceptionShiftActive
  THEN s
  ELSE LET progress == s.perceptionShiftProgress + 25 * delta
       IN IF progress >= ShiftOne
          THEN [s EXCEPT
                  !.perceptionShiftActive = FALSE,
                  !.perceptionShiftProgress = progress,
                  !.gravityInverted = FALSE]
          ELSE [s EXCEPT !.perceptionShiftProgress = progress]

\* mutant: the completed shift leaves gravity inverted
updateShiftKeepsGravity(s, delta) ==
  IF ~s.perceptionShiftActive
  THEN s
  ELSE LET progress == s.perceptionShiftProgress + 25 * delta
       IN IF progress >= ShiftOne
          THEN [s EXCEPT
                  !.perceptionShiftActive = FALSE,
                  !.perceptionShiftProgress = ShiftOne]
          ELSE [s EXCEPT !.perceptionShiftProgress = progress]

updatePerceptionShift(s, delta) ==
  IF ~s.perceptionShiftActive
  THEN s
  ELSE LET progress == s.perceptionShiftProgress + 25 * delta
       IN IF progress >= ShiftOne
          THEN [s EXCEPT
                  !.perceptionShiftActive = FALSE,
                  !.perceptionShiftProgress = ShiftOne,
                  !.gravityInverted = FALSE]
          ELSE [s EXCEPT !.perceptionShiftProgress = progress]

-----------------------------------------------------------------------------
(* The scene that consumes the tracker (HomeScene.js): the depth zone it   *)
(* shows, the zone waiting behind the gate, the blend toward it (in        *)
(* thousandths) and the mood of the fish.                                  *)

Null == "null"

HomeScene ==
  [currentZone |-> "surface", pendingZone |-> Null, zoneBlend |-> 0,
   creatureMood |-> "neutral"]

depthZoneThresholds ==
  <<[zone |-> "surface", threshold |-> 0],
    [zone |-> "shallow", threshold |-> 150],
    [zone |-> "twilight", threshold |-> 350],
    [zone |-> "midnight", threshold |-> 600],
    [zone |-> "abyss", threshold |-> 850]>>

\* the zone the scroll progress (in thousandths) asks for: the last entry
\* whose threshold it has reached
RECURSIVE TargetFrom(_, _, _)
TargetFrom(i, scrollProgress, targetZone) ==
  IF i > Len(depthZoneThresholds) THEN targetZone
  ELSE TargetFrom(i + 1, scrollProgress,
                  IF scrollProgress >= depthZoneThresholds[i].threshold
                  THEN depthZoneThresholds[i].zone ELSE targetZone)

TargetZone(scrollProgress) == TargetFrom(1, scrollProgress, "shallow")

\* mutant: the blend advances whatever the gate answers
updateFuzzyZonesUngated(h, s, scrollProgress, delta) ==
  LET targetZone == TargetZone(scrollProgress)
  IN IF targetZone = h.currentZone
     THEN [scene |-> h, ui |-> s, ret |-> FALSE]
     ELSE LET h1 == IF h.pendingZone # targetZone
                    THEN [h EXCEPT !.pendingZone = targetZone,
                                   !.zoneBlend = 0]
                    ELSE h
              r == requestZoneTransition(s)
              blend == Min(One, h1.zoneBlend + Scale(delta, One, 2 * Sec))
          IN IF blend >= One
             THEN [scene |-> [h1 EXCEPT !.currentZone = targetZone,
                                        !.pendingZone = Null,
                                        !.zoneBlend = 0],
                   ui |-> r.ui, ret |-> r.ret]
             ELSE [scene |-> [h1 EXCEPT !.zoneBlend = blend],
                   ui |-> r.ui, ret |-> r.ret]

\* updateFuzzyZones(scrollProgress, delta) on the scene h and the tracker s;
\* ret is what requestZoneTransition() returned, FALSE when it was not asked
updateFuzzyZones(h, s, scrollProgress, delta) ==
  LET targetZone == TargetZone(scrollProgress)
  IN IF targetZone = h.currentZone
     THEN [scene |-> h, ui |-> s, ret |-> FALSE]
     ELSE LET h1 == IF h.pendingZone # targetZone
                    THEN [h EXCEPT !.pendingZone = targetZone,
                                   !.zoneBlend = 0]
                    ELSE h
              r == requestZoneTransition(s)
              blend == Min(One, h1.zoneBlend + Scale(delta, One, 2 * Sec))
          IN IF ~r.ret THEN [scene |-> h1, ui |-> r.ui, ret |-> FALSE]
             ELSE IF blend >= One
                  THEN [scene |-> [h1 EXCEPT !.currentZone = targetZone,
                                             !.pendingZone = Null,
                                             !.zoneBlend = 0],
                        ui |-> r.ui, ret |-> TRUE]
                  ELSE [scene |-> [h1 EXCEPT !.zoneBlend = blend],
                        ui |-> r.ui, ret |-> TRUE]

\* the mood determination at the head of updateCreatures
updateCreatures(h, s) ==
  [h EXCEPT !.creatureMood =
     IF s.rushFactor > 500 THEN "territorial"
     ELSE IF s.lingerFactor > 600 /\ s.hesitationFactor < 300 THEN "curious"
     ELSE IF s.guideFishUnlocked /\ s.lingerFactor > 700 THEN "guiding"
     ELSE "neutral"]

-----------------------------------------------------------------------------
(* One call on the whole state.  A world is a record of the variables; the  *)
(* clock advances with the frames: update(delta) runs delta after the       *)
(* previous frame, and the input events between two frames read the clock   *)
(* of the frame before them.                                                *)

World ==
  [ui |-> ui, now |-> now, last |-> last, triggers |-> triggers,
   frames |-> frames, goodRun |-> goodRun, goodTotal |-> goodTotal,
   fastOnly |-> fastOnly, shiftDt |-> shiftDt, steps |-> steps,
   idleDt |-> idleDt, movedTo |-> movedTo, longestIdle |-> longestIdle,
   dwellTotal |-> dwellTotal, guideDt |-> guideDt, pure |-> pure,
   beamPeak |-> beamPeak, found |-> found, lastDir |-> lastDir,
   scrollAt |-> scrollAt, quiet |-> quiet, scene |-> scene]

Becomes(w) ==
  /\ ui' = w.ui
  /\ now' = w.now
  /\ last' = w.last
  /\ triggers' = w.triggers
  /\ frames' = w.frames
  /\ goodRun' = w.goodRun
  /\ goodTotal' = w.goodTotal
  /\ fastOnly' = w.fastOnly
  /\ shiftDt' = w.shiftDt
  /\ steps' = w.steps
  /\ idleDt' = w.idleDt
  /\ movedTo' = w.movedTo
  /\ longestIdle' = w.longestIdle
  /\ dwellTotal' = w.dwellTotal
  /\ guideDt' = w.guideDt
  /\ pure' = w.pure
  /\ beamPeak' = w.beamPeak
  /\ found' = w.found
  /\ lastDir' = w.lastDir
  /\ scrollAt' = w.scrollAt
  /\ quiet' = w.quiet
  /\ scene' = w.scene

Called(op, arg, ret) == [op |-> op, arg |-> arg, ret |-> ret]

\* the page at load time t: the module has just built the singleton
Built(t) ==
  [ui |-> constructor(t), now |-> t, last |-> Called("new", 0, FALSE),
   triggers |-> 0, frames |-> 0, goodRun |-> 0, goodTotal |-> 0,
   fastOnly |-> TRUE, shiftDt |-> 0, steps |-> 0,
   idleDt |-> 0, movedTo |-> <<500, 500>>, longestIdle |-> 0,
   dwellTotal |-> 0, guideDt |-> 0, pure |-> TRUE, beamPeak |-> 0,
   found |-> 0, lastDir |-> 0, scrollAt |-> 0, quiet |-> TRUE,
   scene |-> HomeScene]

\* a scroll event after the page has moved by d px
DoScroll(w, d) ==
  [w EXCEPT
     !.ui = _handleScroll(w.ui, w.now, w.ui._scrollY + d),
     !.last = Called("scroll", d, FALSE),
     !.lastDir = IF d # 0 THEN Sign(d) ELSE @,
     !.scrollAt = w.now,
     !.quiet = FALSE,
     !.steps = @ + 1]

DoMouseMove(w, p) ==
  [w EXCEPT
     !.ui = _handleMouseMove(w.ui, w.now, p[1], p[2]),
     !.last = Called("mousemove", 0, FALSE),
     !.idleDt = 0,
     !.movedTo = p,
     !.steps = @ + 1]

DoMouseDown(w) ==
  [w EXCEPT
     !.ui = _handleMouseDown(w.ui),
     !.last = Called("mousedown", 0, FALSE),
     !.steps = @ + 1]

\* one animation frame: the clock moves on by delta, then update(delta)
DoUpdate(w, delta) ==
  LET t == w.now + delta
      s == update(w.ui, delta, t)
      calm == GateCalm(s)
      idle == w.idleDt + delta
      eligible == s.lingerFactor > GuideLinger
                    /\ t - s._startTime > GuideUptime
  IN [w EXCEPT
        !.ui = s,
        !.now = t,
        !.last = Called("update", delta, FALSE),
        !.frames = @ + 1,
        !.goodRun = IF calm THEN @ + delta ELSE 0,
        !.goodTotal = IF calm THEN @ + delta ELSE @,
        !.fastOnly = @ /\ Abs(w.ui._scrollVelocity) > 2000,
        !.idleDt = idle,
        !.longestIdle = Max(@, idle),
        !.dwellTotal = @ + Max(0, idle - DwellThreshold)
                         - Max(0, w.idleDt - DwellThreshold),
        !.guideDt = IF eligible THEN @ + delta ELSE @,
        !.pure = @ /\ s.mouseIntensity = One /\ s.rushFactor = 0
                   /\ s.hesitationFactor <= 200,
        !.beamPeak = Max(@, s.beamResonance),
        !.found = w.ui._phaseAccumulator,
        !.quiet = TRUE,
        !.steps = @ + 1]

DoRequest(w) ==
  LET r == requestZoneTransition(w.ui)
  IN [w EXCEPT
        !.ui = r.ui,
        !.last = Called("request", 0, r.ret),
        !.goodTotal = IF ~w.ui.zoneGateLocked /\ r.ui.zoneGateLocked
                      THEN 0 ELSE @,
        !.steps = @ + 1]

\* updateFuzzyZones(scrollProgress, delta) of the scene
DoFuzzyZones(w, scrollProgress, delta) ==
  LET r == updateFuzzyZones(w.scene, w.ui, scrollProgress, delta)
  IN [w EXCEPT
        !.scene = r.scene,
        !.ui = r.ui,
        !.last = Called("fuzzyZones", delta, r.ret),
        !.goodTotal = IF ~w.ui.zoneGateLocked /\ r.ui.zoneGateLocked
                      THEN 0 ELSE @,
        !.steps = @ + 1]

\* updateCreatures(time, delta) of the scene
DoCreatures(w) ==
  [w EXCEPT
     !.scene = updateCreatures(w.scene, w.ui),
     !.last = Called("creatures", 0, FALSE),
     !.steps = @ + 1]

DoTrigger(w) ==
  [w EXCEPT
     !.ui = triggerPerceptionShift(w.ui),
     !.last = Called("trigger", 0, FALSE),
     !.triggers = @ + 1,
     !.steps = @ + 1]

DoUpdateShift(w, delta) ==
  [w EXCEPT
     !.ui = updatePerceptionShift(w.ui, delta),
     !.last = Called("updateShift", delta, FALSE),
     !.shiftDt = IF w.triggers > 0 THEN @ + delta ELSE @,
     !.steps = @ + 1]

\* n frames of delta each with nothing in between
RECURSIVE Ticks(_, _, _)
Ticks(w, delta, n) ==
  IF n = 0 THEN w ELSE DoUpdate(Ticks(w, delta, n - 1), delta)

\* n clicks with nothing in between
Clicks(w, n) ==
  [w EXCEPT
     !.ui = PointerDowns(w.ui, n),
     !.last = Called("mousedown", 0, FALSE),
     !.steps = @ + n]

\* a state reached earlier in a session, as the start of an exploration
Seed(w) == [w EXCEPT !.steps = 0]

-----------------------------------------------------------------------------
(* Inputs *)

LoadTime == 5      \* performance.now()/1000 when the module is evaluated
MaxSteps == 4      \* calls explored from the constructed tracker

Deltas == {0, 13, 39}
ScrollMoves == {-300, 1, 300}
PointerSpots == {<<500, 500>>, <<900, 100>>}
ShiftDeltas == {0, 130, 270}

-----------------------------------------------------------------------------
(* Actions: one call each *)

Scroll(d) == Becomes(DoScroll(World, d))
MouseMove(p) == Becomes(DoMouseMove(World, p))
MouseDown == Becomes(DoMouseDown(World))
Update(delta) == Becomes(DoUpdate(World, delta))
RequestZoneTransition == Becomes(DoRequest(World))
TriggerPerceptionShift == Becomes(DoTrigger(World))
UpdatePerceptionShift(delta) == Becomes(DoUpdateShift(World, delta))
UpdateFuzzyZones(p, delta) == Becomes(DoFuzzyZones(World, p, delta))
UpdateCreatures == Becomes(DoCreatures(World))

Starts(w) ==
  /\ ui = w.ui
  /\ now = w.now
  /\ last = w.last
  /\ triggers = w.triggers
  /\ frames = w.frames
  /\ goodRun = w.goodRun
  /\ goodTotal = w.goodTotal
  /\ fastOnly = w.fastOnly
  /\ shiftDt = w.shiftDt
  /\ steps = w.steps
  /\ idleDt = w.idleDt
  /\ movedTo = w.movedTo
  /\ longestIdle = w.longestIdle
  /\ dwellTotal = w.dwellTotal
  /\ guideDt = w.guideDt
  /\ pure = w.pure
  /\ beamPeak = w.beamPeak
  /\ found = w.found
  /\ lastDir = w.lastDir
  /\ scrollAt = w.scrollAt
  /\ quiet = w.quiet
  /\ scene = w.scene

\* The whole interface, from the constructed tracker
Init == Starts(Built(LoadTime))

Go == steps < MaxSteps

Next ==
  \/ Go /\ \E d \in ScrollMoves : Scroll(d)
  \/ Go /\ \E p \in PointerSpots : MouseMove(p)
  \/ Go /\ MouseDown
  \/ Go /\ \E delta \in Deltas : Update(delta)
  \/ Go /\ RequestZoneTransition
  \/ Go /\ TriggerPerceptionShift
  \/ Go /\ \E delta \in ShiftDeltas : UpdatePerceptionShift(delta)

Spec == Init /\ [][Next]_vars


-----------------------------------------------------------------------------
(* The zone gate: scroll events, frames and transition requests, explored  *)
(* from four moments of one session: the page just loaded; five frames     *)
(* into a fast scroll; refused at the seventh frame (the gate has just     *)
(* locked); and 0.39 s into the pause that follows.                        *)

MaxGateSteps == 5

Loaded == Built(LoadTime)
Rushing == Ticks(DoScroll(Loaded, 300), 13, 5)
Refused == DoRequest(Ticks(Rushing, 13, 2))
Pausing == Ticks(DoScroll(Refused, 1), 13, 16)

GateSeeds == {Loaded, Rushing, Refused, Pausing}
GateMoves == {1, 300}
GateDeltas == {13, 40}

InitGate == \E w \in GateSeeds : Starts(Seed(w))

GoGate == steps < MaxGateSteps

NextGate ==
  \/ GoGate /\ \E d \in GateMoves : Scroll(d)
  \/ GoGate /\ \E delta \in GateDeltas : Update(delta)
  \/ GoGate /\ RequestZoneTransition

SpecGate == InitGate /\ [][NextGate]_vars

-----------------------------------------------------------------------------
(* The emotional phase machine: frames (of 0 s, 0.13 s and 100 s, a tab    *)
(* resumed from the background), clicks, a scroll and a pointer move,      *)
(* explored from the loaded page, from 49 clicks into it, and from the     *)
(* revelation phase (50 clicks, a frame, and two 100 s frames later).      *)

MaxPhaseSteps == 5

Clicked49 == Clicks(Loaded, 49)
Revelation == Ticks(DoUpdate(Clicks(Loaded, 50), 0), 100 * Sec, 2)

PhaseSeeds == {Loaded, Clicked49, Revelation}
PhaseDeltas == {0, 13, 100 * Sec}
PhaseMoves == {300}
PhaseSpots == {<<900, 100>>}

InitPhase == \E w \in PhaseSeeds : Starts(Seed(w))

GoPhase == steps < MaxPhaseSteps

NextPhase ==
  \/ GoPhase /\ \E delta \in PhaseDeltas : Update(delta)
  \/ GoPhase /\ MouseDown
  \/ GoPhase /\ \E d \in PhaseMoves : Scroll(d)
  \/ GoPhase /\ \E p \in PhaseSpots : MouseMove(p)

SpecPhase == InitPhase /\ [][NextPhase]_vars

-----------------------------------------------------------------------------
(* Claims about the zone gate, checked under SpecGate *)

\* what a requestZoneTransition() call made in the current state returns
Granted == requestZoneTransition(ui).ret

\* C1: in every reachable state where zoneGateLocked is true,
\* requestZoneTransition() returns false (a locked gate refuses every
\* request until update() has unlocked it).
C1_LockedGateRefuses ==
  (last.op = "request" /\ ui.zoneGateLocked) => ~last.ret

\* C2: while the gate is locked, an update() tick that ends with the unlock
\* condition false leaves zoneGateTimer at 0; the gate goes from locked to
\* unlocked only in an update() tick that ends an unbroken run of
\* condition-holding ticks whose deltas sum to more than 0.4 s; and while
\* it is locked the timer is exactly the length of that unbroken run, so an
\* interrupted run carries nothing over.
C2_NoPartialCredit ==
  [][ /\ (ui.zoneGateLocked /\ last'.op = "update" /\ ~GateCalm(ui'))
           => ui'.zoneGateTimer = 0
      /\ (ui.zoneGateLocked /\ ~ui'.zoneGateLocked)
           => (last'.op = "update" /\ goodRun' > GateDwell)
      /\ ui'.zoneGateLocked => ui'.zoneGateTimer = goodRun' ]_vars

\* C2 witness: the gate is still locked although the condition has held for
\* more than 0.4 s in total since it locked, because that time was
\* interrupted (0.39 s, a bad tick, then more good time).
C2_Witness ==
  /\ ui.zoneGateLocked
  /\ last.op = "update"
  /\ goodTotal > GateDwell
  /\ goodRun > 0
  /\ goodRun < goodTotal

\* C3 (as stated): with the scroll velocity above 2000 px/s at every frame
\* since the page loaded, every requestZoneTransition() call returns false.
C3_RefusedThroughout ==
  (fastOnly /\ frames >= 1 /\ last.op = "request") => ~last.ret

\* C3 (amended): with the scroll velocity above 2000 px/s at every frame
\* since the page loaded, rushFactor is above 0.4 exactly from the 7th
\* update() tick on, and a requestZoneTransition() call returns true during
\* the first 6 ticks and false from the 7th on.
C3_RefusedFromSeventhTick ==
  (fastOnly /\ frames >= 1) =>
     /\ (ui.rushFactor > RushLock) = (frames >= 7)
     /\ Granted = (frames < 7)
     /\ last.op = "request" => last.ret = (frames < 7)

\* C3 witness: a request refused at the 7th tick of a sustained fast scroll,
\* after the 6th tick's request was granted.
C3_Witness ==
  /\ fastOnly
  /\ frames = 7
  /\ last.op = "request"
  /\ ~last.ret
  /\ ui.zoneGateLocked

-----------------------------------------------------------------------------
(* Claims about the emotional phase machine, checked under SpecPhase *)

\* C4: emotionalPhaseIndex stays in 0..4, never decreases, changes only in
\* update() and by at most +1 per call, whatever delta is and however many
\* clicks preceded the call.
C4_MonotonicPhaseIndex ==
  [][ /\ ui.emotionalPhaseIndex \in 0..4
      /\ ui'.emotionalPhaseIndex \in 0..4
      /\ ui'.emotionalPhaseIndex >= ui.emotionalPhaseIndex
      /\ ui'.emotionalPhaseIndex <= ui.emotionalPhaseIndex + 1
      /\ ui'.emotionalPhaseIndex # ui.emotionalPhaseIndex
           => last'.op = "update" ]_vars

\* C4 witness: an update() that found at least 2.0 in the accumulator's
\* reach (a 100 s frame in the revelation phase accumulates 7.0) has
\* advanced to the last phase, one phase after the other.
C4_Witness ==
  /\ last.op = "update"
  /\ last.arg = 100 * Sec
  /\ ui.emotionalPhaseIndex = 4
  /\ Len(ui.dispatched) = 4

\* C5: the number of 'emotionalPhaseChange' events dispatched so far equals
\* emotionalPhaseIndex, the k-th event carries {index: k, phase: name of
\* phase k}, and emotionalPhase is the name of emotionalPhaseIndex.
C5_OneEventPerAdvance ==
  /\ Len(ui.dispatched) = ui.emotionalPhaseIndex
  /\ Len(ui.dispatched) <= 4
  /\ \A k \in 1..Len(ui.dispatched) :
        ui.dispatched[k] = [phase |-> phases[k + 1], index |-> k]
  /\ ui.emotionalPhase = phases[ui.emotionalPhaseIndex + 1]

\* C5 witness: all four events have been dispatched, the last one by the
\* update() just made.
C5_Witness ==
  /\ last.op = "update"
  /\ Len(ui.dispatched) = 4
  /\ ui.dispatched[4] = [phase |-> "transformation", index |-> 4]
  /\ ui.emotionalPhase = "transformation"

\* C6: _phaseAccumulator lies in [0, 1] in every reachable state, the states
\* between a pointer-down and the next update() and those of the terminal
\* phase included.
C6_AccumulatorInUnitInterval ==
  ui._phaseAccumulator >= 0 /\ ui._phaseAccumulator <= AccOne

\* C7: after every update() call that ends with emotionalPhaseIndex = 4,
\* phaseProgress equals 1.
C7_TerminalProgressPinned ==
  (last.op = "update" /\ ui.emotionalPhaseIndex = 4)
     => ui.phaseProgress = AccOne

\* C8: once emotionalPhaseIndex = 4, no operation changes _phaseAccumulator.
C8_TerminalAccumulatorFrozen ==
  [][ ui.emotionalPhaseIndex = 4
        => ui'._phaseAccumulator = ui._phaseAccumulator ]_vars

-----------------------------------------------------------------------------
(* Claims about the perception shift, checked under Spec *)

ShiftFields(s) ==
  <<s.perceptionShiftTriggered, s.perceptionShiftActive,
    s.perceptionShiftProgress, s.gravityInverted>>

\* C9: only the first triggerPerceptionShift() call has an effect: a later
\* call, made while the shift runs or after it has completed, leaves
\* perceptionShiftTriggered, perceptionShiftActive, perceptionShiftProgress
\* and gravityInverted unchanged; perceptionShiftActive goes from false to
\* true only in the first call; perceptionShiftProgress never decreases.
C9_TriggerOnce ==
  [][ /\ (last'.op = "trigger" /\ triggers >= 1)
           => ShiftFields(ui') = ShiftFields(ui)
      /\ (~ui.perceptionShiftActive /\ ui'.perceptionShiftActive)
           => (last'.op = "trigger" /\ triggers = 0)
      /\ ui'.perceptionShiftProgress >= ui.perceptionShiftProgress ]_vars

\* C9 witness: a second trigger call made after the shift has completed.
C9_Witness ==
  /\ last.op = "trigger"
  /\ triggers >= 2
  /\ ~ui.perceptionShiftActive
  /\ ui.perceptionShiftProgress = ShiftOne

\* C10: after triggerPerceptionShift(), perceptionShiftProgress equals
\* min(1, 0.25 * the deltas passed to updatePerceptionShift() since the
\* trigger), perceptionShiftActive is true exactly while those deltas sum to
\* less than 4 s, and gravityInverted follows it; before the trigger the
\* shift is idle at 0.
C10_ShiftRunsToCompletion ==
  /\ triggers = 0 =>
       /\ ~ui.perceptionShiftActive
       /\ ui.perceptionShiftProgress = 0
  /\ triggers > 0 =>
       /\ ui.perceptionShiftProgress = Min(ShiftOne, 25 * shiftDt)
       /\ ui.perceptionShiftActive = (shiftDt < 4 * Sec)
       /\ ui.perceptionShiftProgress >= 0
       /\ ui.perceptionShiftProgress <= ShiftOne

\* C10 witness: a completed shift (the deltas summed to 4 s or more) that
\* a further updatePerceptionShift(delta > 0) has left at exactly 1.
C10_Witness ==
  /\ last.op = "updateShift"
  /\ last.arg > 0
  /\ shiftDt - last.arg >= 4 * Sec
  /\ ~ui.perceptionShiftActive
  /\ ui.perceptionShiftProgress = ShiftOne

-----------------------------------------------------------------------------
(* The pointer: pointer moves and frames (of 0.01 s, 1.19 s, 2.01 s and    *)
(* 10 s), explored from the loaded page and from a pointer that has been   *)
(* stirring near the screen centre for four frames (beamResonance at 1).   *)

MaxDwellSteps == 5

Resonant == Ticks(DoMouseMove(Loaded, <<600, 500>>), 201, 4)

DwellSeeds == {Loaded, Resonant}
DwellDeltas == {1, 119, 201, 10 * Sec}
DwellSpots == {<<600, 500>>, <<900, 100>>}

InitDwell == \E w \in DwellSeeds : Starts(Seed(w))

GoDwell == steps < MaxDwellSteps

NextDwell ==
  \/ GoDwell /\ \E p \in DwellSpots : MouseMove(p)
  \/ GoDwell /\ \E delta \in DwellDeltas : Update(delta)

SpecDwell == InitDwell /\ [][NextDwell]_vars

-----------------------------------------------------------------------------
(* Claims about the pointer, checked under SpecDwell *)

\* C14: after any update() call, cursorDwelling is true exactly when the
\* deltas accumulated since the last pointer-move event exceed 1.2 s, the
\* dwell duration is the excess, and while dwelling cursorDwellPosition is
\* the position recorded by that last move; so a pointer that moves again
\* after 1.19 s (or 1.20 s) of idle is never seen dwelling in between.
C14_DwellLatch ==
  last.op = "update" =>
     /\ ui.cursorDwelling = (idleDt > DwellThreshold)
     /\ ui.cursorDwellDuration = Max(0, idleDt - DwellThreshold)
     /\ ui.cursorDwelling =>
          ui.cursorDwellPosition = [x |-> movedTo[1], y |-> movedTo[2]]

\* C14 witness: the pointer moved to (0.9, 0.1) and has been idle for
\* 1.21 s; the tick before, at 1.20 s, was not yet dwelling.
C14_Witness ==
  /\ last.op = "update"
  /\ last.arg = 1
  /\ idleDt = DwellThreshold + 1
  /\ ui.cursorDwelling
  /\ movedTo = <<900, 100>>
  /\ ui.cursorDwellPosition = [x |-> 900, y |-> 100]

\* C15: in every reachable state, the state between a pointer-move event
\* and the next update() included, cursorDwelling = true implies that
\* _mouseIdleTime exceeds 1.2 s.
C15_MoveCancelsDwelling ==
  ui.cursorDwelling => ui._mouseIdleTime > DwellThreshold

\* C16: dataPanelsExpanded is true exactly when some update() tick has
\* ended with more than 1.2 s + 2.0 s of deltas since the last pointer
\* move (cursorDwelling and cursorDwellDuration > 2.0); it turns true in
\* that very tick, and dwell time from separate dwells does not add up.
C16_PanelsNeedOneLongDwell ==
  /\ ui.dataPanelsExpanded = (longestIdle > DwellThreshold + PanelDwell)
  /\ (last.op = "update" /\ ui.cursorDwelling
        /\ ui.cursorDwellDuration > PanelDwell) => ui.dataPanelsExpanded

\* C16 witness: three dwells of 0.81 s each, 2.43 s of dwelling in all,
\* and the panels are still closed.
C16_Witness ==
  /\ last.op = "update"
  /\ ui.cursorDwelling
  /\ dwellTotal > PanelDwell
  /\ ~ui.dataPanelsExpanded

\* the pointer is within 0.3 of the screen centre (UserIntent.js:246-247)
NearCentre(s) ==
  (s._mouseX - 500) * (s._mouseX - 500)
    + (s._mouseY - 500) * (s._mouseY - 500) < 300 * 300

\* C20: beamResonance stays in [0, 1]; update(dt) makes it
\* min(1, old + 0.3 dt) when the pointer is within 0.3 of the centre and
\* mouseIntensity > 0.2, and max(0, old - 0.1 dt) otherwise; no other call
\* changes it.
C20_BeamResonance ==
  /\ [](ui.beamResonance >= 0 /\ ui.beamResonance <= One)
  /\ [][ IF last'.op = "update"
         THEN ui'.beamResonance =
                IF NearCentre(ui') /\ ui'.mouseIntensity > 200
                THEN Min(One, ui.beamResonance + 3 * last'.arg)
                ELSE Max(0, ui.beamResonance - last'.arg)
         ELSE ui'.beamResonance = ui.beamResonance ]_vars

\* C20 witness: beamResonance has been at 1 and an update() has brought it
\* back to 0.
C20_Witness ==
  /\ last.op = "update"
  /\ beamPeak = One
  /\ ui.beamResonance = 0

-----------------------------------------------------------------------------
(* The unlock latches and the intent channels: scroll events in both       *)
(* directions, a pointer move, frames (of 0 s, 2.1 s and 10 s) and trigger *)
(* calls, explored from the loaded page and from the 20th second of an     *)
(* idle session (two 10 s frames after the load).                          *)

MaxUnlockSteps == 5

Lingering == Ticks(Loaded, 10 * Sec, 2)

UnlockSeeds == {Loaded, Lingering}
UnlockDeltas == {0, 210, 10 * Sec}
UnlockMoves == {-300, 300}
UnlockSpots == {<<900, 100>>}

InitUnlock == \E w \in UnlockSeeds : Starts(Seed(w))

GoUnlock == steps < MaxUnlockSteps

NextUnlock ==
  \/ GoUnlock /\ \E d \in UnlockMoves : Scroll(d)
  \/ GoUnlock /\ \E p \in UnlockSpots : MouseMove(p)
  \/ GoUnlock /\ \E delta \in UnlockDeltas : Update(delta)
  \/ GoUnlock /\ TriggerPerceptionShift

SpecUnlock == InitUnlock /\ [][NextUnlock]_vars

-----------------------------------------------------------------------------
(* Claims about the latches and the channels, checked under SpecUnlock *)

\* C11: guideFishUnlocked and dataPanelsExpanded are latches: once true,
\* each stays true through every later event, tick and trigger call.
C11_LatchesStay ==
  [][ /\ ui.guideFishUnlocked => ui'.guideFishUnlocked
      /\ ui.dataPanelsExpanded => ui'.dataPanelsExpanded ]_vars

\* C11 witness: both latches are set although the conditions that set them
\* are gone: the user has scrolled (lingerFactor <= 0.8) and moved the
\* pointer (no longer dwelling), and a tick has run since.
C11_Witness ==
  /\ last.op = "update"
  /\ ui.guideFishUnlocked
  /\ ui.dataPanelsExpanded
  /\ ui.lingerFactor <= GuideLinger
  /\ ~ui.cursorDwelling

\* C12: guideFishUnlocked is true exactly when the deltas of the update()
\* ticks that ran with lingerFactor > 0.8 and more than 20 s of uptime sum
\* to more than 4 s; until then the accumulator is exactly that sum (other
\* ticks neither add nor subtract); and up to 20 s of uptime nothing has
\* been counted and the latch is false.
C12_GuideFishEligibility ==
  /\ ui.guideFishUnlocked = (guideDt > GuideAccum)
  /\ ~ui.guideFishUnlocked => ui._guideFishLingerAccum = guideDt
  /\ now - ui._startTime <= GuideUptime =>
       (guideDt = 0 /\ ~ui.guideFishUnlocked)

\* C12 witness: the latch has just been set by the second counted tick of
\* 2.1 s (4.2 s in all), after a tick past the 20th second went uncounted
\* because the user had scrolled (lingerFactor = 0.7).
C12_Witness ==
  /\ last.op = "update"
  /\ last.arg = 210
  /\ ui.guideFishUnlocked
  /\ guideDt = 420
  /\ now - ui._startTime - GuideUptime > guideDt

\* C13: in every reachable state rushFactor, lingerFactor, hesitationFactor
\* and mouseIntensity are in [0, 1], explorationRhythm is in [-1, 1] and
\* timeScale is in [0.3, 2.0]: whatever the events and the deltas.
C13_ChannelsBounded ==
  /\ ui.rushFactor >= 0 /\ ui.rushFactor <= One
  /\ ui.lingerFactor >= 0 /\ ui.lingerFactor <= One
  /\ ui.hesitationFactor >= 0 /\ ui.hesitationFactor <= One
  /\ ui.mouseIntensity >= 0 /\ ui.mouseIntensity <= One
  /\ ui.explorationRhythm >= -One /\ ui.explorationRhythm <= One
  /\ ui.timeScale >= 300 /\ ui.timeScale <= 2000

\* C13 witness: a 10 s frame after scrolling down and back up within one
\* frame: every channel has moved, lingerFactor is saturated.
C13_Witness ==
  /\ last.op = "update"
  /\ last.arg = 10 * Sec
  /\ ui._lastScrollDirection = -1
  /\ ui.hesitationFactor > 0
  /\ ui.rushFactor > 0
  /\ ui.lingerFactor = One
  /\ ui.explorationRhythm > 0
  /\ ui.timeScale < One

-----------------------------------------------------------------------------
(* The pointer-down handler, checked under SpecPhase *)

-----------------------------------------------------------------------------
(* Pure mouse activity: the pointer keeps moving between two spots while   *)
(* the frames (of 10 s and 25 s) run, with no scroll event and no     *)
(* click.  The scenario starts at the loaded page with the pointer just    *)
(* moved and mouseIntensity saturated: the moving average of line 186      *)
(* settles at 0.9999999999999996 in doubles, which is 1.000 here, and      *)
(* frames of 0 s take it there without accumulating anything.  The frames  *)
(* go on while the scenario's premise holds and until the second advance.  *)
(* The animation loop keeps calling update(): the fairness is stated on    *)
(* the frame counter, which update() steps, and nothing else, advance.     *)

MaxAdvanceFrames == 6

Stirred ==
  LET w == DoMouseMove(Loaded, <<900, 100>>)
  IN [w EXCEPT !.ui.mouseIntensity = One]

AdvanceDeltas == {10 * Sec, 25 * Sec}
AdvanceSpots == {<<600, 500>>, <<900, 100>>}

InitAdvance == Starts(Seed(Stirred))

GoAdvance == pure /\ Len(ui.dispatched) < 2 /\ frames < MaxAdvanceFrames

Tick == GoAdvance /\ \E delta \in AdvanceDeltas : Update(delta)

NextAdvance ==
  \/ Tick
  \/ GoAdvance /\ last.op # "mousemove" /\ \E p \in AdvanceSpots : MouseMove(p)

\* a frame is run: the step is a Tick
TickTaken == GoAdvance /\ frames' = frames + 1

SpecAdvance == InitAdvance /\ [][NextAdvance]_vars /\ WF_frames(TickTaken)

\* C18: from emotionalPhaseIndex = 0 and an empty accumulator, with
\* mouseIntensity = 1, rushFactor = 0 and hesitationFactor <= 0.2 at every
\* tick and update(dt > 0) called again and again, the tracker eventually
\* reaches index 1; once there (the premise still holding) the deltas sum
\* to 50 s or more and exactly one event carries index 1, the first one,
\* with detail {phase: 'uncertainty', index: 1}.  (No event intervenes
\* between the frames' clock readings, so the deltas since the load sum to
\* now - _startTime.)
C18_PureMouseAdvance ==
  /\ <>(~pure \/ ui.emotionalPhaseIndex >= 1)
  /\ [](pure /\ ui.emotionalPhaseIndex >= 1 =>
          /\ now - ui._startTime >= 50 * Sec
          /\ Len(ui.dispatched) >= 1
          /\ ui.dispatched[1] = [phase |-> "uncertainty", index |-> 1]
          /\ Cardinality({k \in 1..Len(ui.dispatched) :
                            ui.dispatched[k].index = 1}) = 1)

\* C18 witness: the premise has held at every tick, the deltas sum to
\* exactly 50 s and the tick just made has advanced to 'uncertainty'.
C18_Witness ==
  /\ pure
  /\ last.op = "update"
  /\ now - ui._startTime = 50 * Sec
  /\ ui.emotionalPhaseIndex = 1
  /\ ui.emotionalPhase = "uncertainty"
  /\ ui.dispatched = <<[phase |-> "uncertainty", index |-> 1]>>

-----------------------------------------------------------------------------
(* The pause after a refusal: the gate has just locked (seventh frame of a *)
(* fast scroll) and no scroll event arrives any more, either at once       *)
(* (the last event was the fast one, 6000 px/s), or after one last event   *)
(* of 300 px (329 px/s), or after one last event of 1 px (1 px/s).  Only   *)
(* the frames run, at a steady 0.13 s or a steady 0.4 s.  They are         *)
(* followed while the gate                                                 *)
(* is locked and rushFactor still moves: once a further update() leaves    *)
(* rushFactor where it is, and no scroll event comes to change             *)
(* _scrollVelocity, no later frame can change what the gate reads.         *)

Coasting == DoScroll(Refused, 300)
Slowed == DoScroll(Refused, 1)

PauseSeeds == {Refused, Coasting, Slowed}
PauseDeltas == {13, 40}

InitPause == \E w \in PauseSeeds : Starts(Seed(w))

\* rushFactor has reached the fixed point of its moving average
RushSettled(s) == RushStep(s).rushFactor = s.rushFactor

GoPause == ui.zoneGateLocked /\ ~RushSettled(ui)

\* a steady frame rate: every frame is as long as the one before it
Paced(delta) == last.op = "update" => delta = last.arg

NextPause == GoPause /\ \E delta \in PauseDeltas : Paced(delta) /\ Update(delta)

\* a frame is run
FrameTaken == GoPause /\ frames' = frames + 1

SpecPause == InitPause /\ [][NextPause]_vars /\ WF_frames(FrameTaken)

\* C19: with the gate locked, no further scroll event and no further
\* request, the update() ticks eventually unlock the gate, whatever the
\* velocity of the last scroll event was.
C19_PausingOpensGate == <>(~ui.zoneGateLocked)

-----------------------------------------------------------------------------
(* The accumulator under a surplus and under a negative rate: frames,      *)
(* clicks and scroll events, explored from 100 clicks into the loaded page *)
(* (accumulator 2.0) and from the uncertainty phase eight frames into a    *)
(* fast scroll.                                                            *)

MaxSurplusSteps == 6

Clicked100 == Clicks(Loaded, 100)
Hurrying == Ticks(DoScroll(Clicks(Loaded, 50), 300), 13, 8)

SurplusSeeds == {Clicked100, Hurrying}
SurplusDeltas == {0, 13}
SurplusMoves == {300}

InitSurplus == \E w \in SurplusSeeds : Starts(Seed(w))

GoSurplus == steps < MaxSurplusSteps

NextSurplus ==
  \/ GoSurplus /\ \E delta \in SurplusDeltas : Update(delta)
  \/ GoSurplus /\ MouseDown
  \/ GoSurplus /\ \E d \in SurplusMoves : Scroll(d)

SpecSurplus == InitSurplus /\ [][NextSurplus]_vars

\* C21: the accumulator never un-accumulates.  No call lowers
\* _phaseAccumulator except the update() that advances the phase, and that
\* call leaves the index one higher and both the accumulator and
\* phaseProgress at exactly 0, whatever surplus there was.
C21_NeverUnaccumulates ==
  [][ ui'._phaseAccumulator < ui._phaseAccumulator =>
        /\ last'.op = "update"
        /\ ui'.emotionalPhaseIndex = ui.emotionalPhaseIndex + 1
        /\ ui'._phaseAccumulator = 0
        /\ ui'.phaseProgress = 0 ]_vars

\* an update() of 0.13 s in the uncertainty phase whose rate
\* (hesitation*0.04 + linger*0.02 - rush*0.01) was negative and which left
\* the accumulator where it found it
C21_Witness ==
  /\ last.op = "update"
  /\ last.arg > 0
  /\ ui.emotionalPhaseIndex = 1
  /\ AccumRate(ui) < 0
  /\ found > 0
  /\ ui._phaseAccumulator = found

-----------------------------------------------------------------------------
(* The order of the steps of a frame: the whole interface, explored from   *)
(* the loaded page, from 49 clicks into it, from 0.39 s into the pause     *)
(* that follows a refusal, and from 20 s without a scroll event.           *)

MaxOrderSteps == 3

OrderSeeds == {Loaded, Clicked49, Pausing, Lingering}
OrderDeltas == {0, 13, 40}
OrderMoves == {-300, 0, 300}
OrderSpots == {<<900, 100>>}

InitOrder == \E w \in OrderSeeds : Starts(Seed(w))

GoOrder == steps < MaxOrderSteps

NextOrder ==
  \/ GoOrder /\ \E d \in OrderMoves : Scroll(d)
  \/ GoOrder /\ \E p \in OrderSpots : MouseMove(p)
  \/ GoOrder /\ MouseDown
  \/ GoOrder /\ \E delta \in OrderDeltas : Update(delta)
  \/ GoOrder /\ RequestZoneTransition
  \/ GoOrder /\ TriggerPerceptionShift
  \/ GoOrder /\ \E delta \in OrderDeltas : UpdatePerceptionShift(delta)

SpecOrder == InitOrder /\ [][NextOrder]_vars

\* C22: the order of the frame's steps does not matter.  From every state
\* and for every delta, update then updatePerceptionShift gives the same
\* tracker as updatePerceptionShift then update; update leaves the four
\* shift fields alone and updatePerceptionShift leaves every other field
\* alone; and inside update the zone-gate step, the emotional-phase step
\* and the unlock step, applied in any of their six orders to the refreshed
\* channels, give what update gives.
C22_OrderIndependent ==
  \A delta \in OrderDeltas :
    LET t == now + delta
        elapsed == t - ui._startTime
        c == IntentStep(ui, delta, t)
        G(s) == ZoneGateStep(s, delta)
        P(s) == _updateEmotionalPhase(s, delta, elapsed)
        U(s) == UnlockStep(s, delta, elapsed)
        u == update(ui, delta, t)
        v == updatePerceptionShift(ui, delta)
    IN /\ updatePerceptionShift(u, delta) = update(v, delta, t)
       /\ ShiftFields(u) = ShiftFields(ui)
       /\ v = [ui EXCEPT
                 !.perceptionShiftTriggered = v.perceptionShiftTriggered,
                 !.perceptionShiftActive = v.perceptionShiftActive,
                 !.perceptionShiftProgress = v.perceptionShiftProgress,
                 !.gravityInverted = v.gravityInverted]
       /\ U(P(G(c))) = u
       /\ U(G(P(c))) = u
       /\ P(U(G(c))) = u
       /\ P(G(U(c))) = u
       /\ G(U(P(c))) = u
       /\ G(P(U(c))) = u

\* an update() that opened the gate and expanded the data panels in the
\* same tick, run while a perception shift was under way
C22_Witness ==
  /\ last.op = "update"
  /\ ui.perceptionShiftActive
  /\ ui.perceptionShiftProgress > 0
  /\ ~ui.zoneGateLocked
  /\ goodTotal > GateDwell
  /\ goodTotal - last.arg <= GateDwell
  /\ ui.dataPanelsExpanded
  /\ ui.cursorDwellDuration <= PanelDwell + last.arg

\* C23: direction-change counting.  A scroll event adds 1 to
\* _scrollDirectionChanges exactly when its delta is non-zero and of the
\* sign opposite to the previous non-zero delta; an event in the same
\* direction, a zero-delta event and an event with no previous direction
\* leave the count as it was.
C23_CountsOnlyFlips ==
  [][ last'.op = "scroll" =>
        ui'._scrollDirectionChanges =
          ui._scrollDirectionChanges
            + (IF lastDir # 0 /\ Sign(last'.arg) = -lastDir
               THEN One ELSE 0) ]_vars

\* C24: linger is a function of the time since the last scroll event (the
\* clock's origin while there has been none).  After every update()
\* lingerFactor = min((now - time of the last scroll event) / 3, 1), so it
\* is exactly 1 once 3 s have passed; an update() that no scroll event
\* preceded since the update() before does not lower it; and an update()
\* that follows a scroll event at once leaves it at 0.
C24_LingerFromLastScroll ==
  /\ [](last.op = "update" =>
          /\ ui.lingerFactor = Min(Scale(now - scrollAt, One, 3 * Sec), One)
          /\ (now - scrollAt >= 3 * Sec => ui.lingerFactor = One))
  /\ [][ last'.op = "update" =>
           /\ (quiet => ui'.lingerFactor >= ui.lingerFactor)
           /\ (~quiet /\ last'.arg = 0 => ui'.lingerFactor = 0) ]_vars

\* an update() more than 3 s after a scroll event, with linger back at 1
C24_Witness ==
  /\ last.op = "update"
  /\ lastDir # 0
  /\ scrollAt > LoadTime
  /\ now - scrollAt >= 3 * Sec
  /\ ui.lingerFactor = One

\* C24 as stated: besides the above, the first update() after a scroll
\* event leaves lingerFactor below the value it had before that event.
C24_DropsAfterScroll ==
  /\ C24_LingerFromLastScroll
  /\ [][ last'.op = "update" /\ ~quiet =>
           ui'.lingerFactor < ui.lingerFactor ]_vars

-----------------------------------------------------------------------------
(* The scene's consumers of the tracker: updateFuzzyZones and              *)
(* updateCreatures between scroll events and frames, explored from the     *)
(* loaded page, from a blend toward the shallow zone overtaken by a fast   *)
(* scroll (seven frames in, rushFactor 0.44), and from 30 s without a      *)
(* scroll event (guide fish unlocked).                                     *)

MaxSceneSteps == 4

Blending == Ticks(DoScroll(DoFuzzyZones(Loaded, 200, 13), 300), 13, 7)
Guided == Ticks(Loaded, 10 * Sec, 3)

SceneSeeds == {Loaded, Blending, Guided}
SceneProgress == {0, 200, 400}
SceneDeltas == {13, 100}
SceneMoves == {300}
SceneFrames == {13}

InitScene == \E w \in SceneSeeds : Starts(Seed(w))

GoScene == steps < MaxSceneSteps

NextScene ==
  \/ GoScene /\ \E p \in SceneProgress, delta \in SceneDeltas :
                   UpdateFuzzyZones(p, delta)
  \/ GoScene /\ UpdateCreatures
  \/ GoScene /\ \E d \in SceneMoves : Scroll(d)
  \/ GoScene /\ \E delta \in SceneFrames : Update(delta)

SpecScene == InitScene /\ [][NextScene]_vars

\* the zone changed in this step
Committed == scene'.currentZone # scene.currentZone

\* the blend this step started from: the old one, or 0 for a new target
Retargeted == scene'.pendingZone \notin {scene.pendingZone, Null}

\* C25: the zone commit is gated in the consumer.  currentZone changes
\* only in an updateFuzzyZones call in which requestZoneTransition()
\* returned true and zoneBlend reached 1, and that call leaves zoneBlend 0
\* and no pending zone; a call made while rushFactor > 0.4 is refused and
\* leaves currentZone unchanged and zoneBlend unchanged, or reset to 0 when
\* the target differs from the pending zone; and whenever the pending
\* target changes the blend restarts from 0.
C25_CommitIsGated ==
  [][ /\ Committed =>
           /\ last'.op = "fuzzyZones"
           /\ last'.ret
           /\ (IF scene.pendingZone = scene'.currentZone
               THEN scene.zoneBlend ELSE 0)
                + Scale(last'.arg, One, 2 * Sec) >= One
           /\ scene'.zoneBlend = 0
           /\ scene'.pendingZone = Null
      /\ last'.op = "fuzzyZones" /\ ui.rushFactor > RushLock =>
           /\ ~last'.ret
           /\ scene'.currentZone = scene.currentZone
           /\ scene'.zoneBlend = IF Retargeted THEN 0 ELSE scene.zoneBlend
      /\ Retargeted /\ ~Committed =>
           scene'.zoneBlend =
             IF last'.ret THEN Min(One, Scale(last'.arg, One, 2 * Sec))
             ELSE 0 ]_vars

\* a call refused during a fast scroll that found a new target and reset
\* the blend made toward the earlier one
C25_Witness ==
  /\ last.op = "fuzzyZones"
  /\ ~last.ret
  /\ ui.rushFactor > RushLock
  /\ scene.currentZone = "surface"
  /\ scene.pendingZone = "twilight"
  /\ scene.zoneBlend = 0

\* C25 as stated: a call made while rushFactor > 0.4 leaves currentZone and
\* zoneBlend both unchanged.
C25_RushLeavesBlend ==
  [][ /\ Committed =>
           /\ last'.op = "fuzzyZones"
           /\ last'.ret
           /\ scene'.zoneBlend = 0
      /\ last'.op = "fuzzyZones" /\ ui.rushFactor > RushLock =>
           /\ scene'.currentZone = scene.currentZone
           /\ scene'.zoneBlend = scene.zoneBlend ]_vars

\* C26: the guiding mood.  After updateCreatures has run with
\* guideFishUnlocked true and lingerFactor > 0.7, creatureMood is
\* 'guiding', whatever hesitationFactor is.
C26_GuideLeads ==
  last.op = "creatures" /\ ui.guideFishUnlocked /\ ui.lingerFactor > 700
    => scene.creatureMood = "guiding"

\* C27: the phase advances only inside update().  Every change of
\* emotionalPhaseIndex is made by an update() call, by exactly one, with
\* exactly one event; a pointer-down changes neither the index nor the
\* events, even when it lifts the accumulator to 1 or beyond; and an
\* update() that finds the accumulator at 1 or beyond in a non-terminal
\* phase advances by exactly one phase and dispatches exactly one event,
\* also when its delta is 0 and when the accumulator holds 2.0 or more.
C27_AdvanceOnlyInUpdate ==
  [][ /\ ui'.emotionalPhaseIndex # ui.emotionalPhaseIndex =>
           last'.op = "update"
      /\ last'.op = "mousedown" =>
           /\ ui'.emotionalPhaseIndex = ui.emotionalPhaseIndex
           /\ ui'.emotionalPhase = ui.emotionalPhase
           /\ ui'.dispatched = ui.dispatched
      /\ last'.op = "update" /\ ui._phaseAccumulator >= AccOne
           /\ ui.emotionalPhaseIndex < LastPhase =>
           /\ ui'.emotionalPhaseIndex = ui.emotionalPhaseIndex + 1
           /\ ui'.dispatched =
                Append(ui.dispatched,
                       [phase |-> ui'.emotionalPhase,
                        index |-> ui'.emotionalPhaseIndex]) ]_vars

\* update(0) after 100 clicks: it found the accumulator at 2.0 and left
\* the tracker in the second phase with one event dispatched
C27_Witness ==
  /\ last.op = "update"
  /\ last.arg = 0
  /\ found >= 2 * AccOne
  /\ ui.emotionalPhaseIndex = 1
  /\ ui.emotionalPhase = "uncertainty"
  /\ ui._phaseAccumulator = 0
  /\ ui.dispatched = <<[phase |-> "uncertainty", index |-> 1]>>

\* C28: the zone-gate timer.  While the gate is unlocked zoneGateTimer is
\* 0; while it is locked 0 <= zoneGateTimer <= 0.4.
C28_GateTimerRange ==
  /\ ~ui.zoneGateLocked => ui.zoneGateTimer = 0
  /\ ui.zoneGateLocked =>
       ui.zoneGateTimer >= 0 /\ ui.zoneGateTimer <= GateDwell

\* an update() that brought the timer of the locked gate to exactly 0.4 s
C28_Witness ==
  /\ last.op = "update"
  /\ ui.zoneGateLocked
  /\ ui.zoneGateTimer = GateDwell

\* C29: the perception-shift flags.  gravityInverted equals
\* perceptionShiftActive; active implies triggered; a progress above 0
\* implies triggered; and triggered without active means the shift has
\* completed, progress 1.
C29_ShiftFlagsConsistent ==
  /\ ui.gravityInverted = ui.perceptionShiftActive
  /\ ui.perceptionShiftActive => ui.perceptionShiftTriggered
  /\ ui.perceptionShiftProgress > 0 => ui.perceptionShiftTriggered
  /\ ui.perceptionShiftTriggered /\ ~ui.perceptionShiftActive =>
       ui.perceptionShiftProgress = ShiftOne

\* the updatePerceptionShift() call that completed the shift
C29_Witness ==
  /\ last.op = "updateShift"
  /\ shiftDt >= 4 * Sec
  /\ shiftDt - last.arg < 4 * Sec
  /\ ui.perceptionShiftTriggered
  /\ ~ui.perceptionShiftActive
  /\ ~ui.gravityInverted
  /\ ui.perceptionShiftProgress = ShiftOne

\* C30: requestZoneTransition() is a pure query unless the user is
\* rushing.  Called with rushFactor <= 0.4 it returns true and changes no
\* field; called with rushFactor > 0.4 it returns false and changes only
\* zoneGateLocked (to true) and zoneGateTimer (to 0).
C30_RequestFrame ==
  [][ last'.op = "request" =>
        IF ui.rushFactor > RushLock
        THEN /\ ~last'.ret
             /\ ui' = [ui EXCEPT !.zoneGateLocked = TRUE, !.zoneGateTimer = 0]
        ELSE /\ last'.ret
             /\ ui' = ui ]_vars

\* a granted request made while the gate was locked and its timer running:
\* both are as they were
C30_Witness ==
  /\ last.op = "request"
  /\ last.ret
  /\ ui.rushFactor <= RushLock
  /\ ui.zoneGateLocked
  /\ ui.zoneGateTimer > 0

====
